---- MODULE Spec2Model ----
(***************************************************************************)
(* The SuperStore dashboard script (src/app.py) as a state machine.        *)
(*                                                                         *)
(* The script is re-executed from top to bottom on every widget event.     *)
(* The state is the value of every name the script binds; one action per   *)
(* widget group re-runs the whole script with the new widget values.       *)
(*                                                                         *)
(* A DataFrame is a sequence of rows; a row is a record that carries its   *)
(* pandas index label in the field "index".  A Timestamp is a number of    *)
(* ticks, TicksPerDay ticks to the day; a datetime.date is a day number.   *)
(* Money and quantities are integers; a quotient is kept as the exact      *)
(* fraction [num, den].                                                    *)
(***************************************************************************)
EXTENDS Integers, Sequences, FiniteSets

\* ------------------------------------------------------------------ bounds
MaxRows == 2        \* longest hand-sized dataset
TicksPerDay == 2    \* resolution of the time of day inside an Order Date
NumProducts == 11   \* rows (one product each) of a catalogue dataset
SalesMod == 9       \* catalogue sales are residues below this number

\* -------------------------------------------------------- program constants
TopN == 10          \* .head(10)

All == "All"
NaN == "NaN"        \* a missing cell

\* Every string of the model, in the order Python's sorted() gives.
Lexicon ==
  << "Bookcase", "Chairs", "Desk Chair", "East", "Furniture", "New York",
     "Phones", "Product 01", "Product 02", "Product 03", "Product 04",
     "Product 05", "Product 06", "Product 07", "Product 08", "Product 09",
     "Product 10", "Product 11", "Product 12", "Product 13", "Product 14",
     "Smart Phone", "Technology", "Texas", "West" >>

LexRank(s) == CHOOSE i \in DOMAIN Lexicon : Lexicon[i] = s

ProductNames ==
  << "Product 01", "Product 02", "Product 03", "Product 04", "Product 05",
     "Product 06", "Product 07", "Product 08", "Product 09", "Product 10",
     "Product 11", "Product 12", "Product 13", "Product 14" >>

\* ------------------------------------------------------------ fractions
Frac(n, d) == [num |-> n, den |-> d]
Zero == Frac(0, 1)
\* a < b for fractions with positive denominators
FracLess(a, b) == a.num * b.den < b.num * a.den
FracTimes(a, b) == Frac(a.num * b.num, a.den * b.den)

\* ------------------------------------------------------------ DataFrame
Row(d, reg, st, cat, sub, prod, s, q, p) ==
  [OrderDate |-> d, Region |-> reg, State |-> st, Category |-> cat,
   SubCategory |-> sub, ProductName |-> prod, Sales |-> s, Quantity |-> q,
   Profit |-> p]

WithIndex(r, i) ==
  [index |-> i, OrderDate |-> r.OrderDate, Region |-> r.Region,
   State |-> r.State, Category |-> r.Category, SubCategory |-> r.SubCategory,
   ProductName |-> r.ProductName, Sales |-> r.Sales, Quantity |-> r.Quantity,
   Profit |-> r.Profit]

\* pd.read_excel: the sheet's rows under a RangeIndex 0..n-1
read_excel(rows) == [i \in DOMAIN rows |-> WithIndex(rows[i], i - 1)]

At(d, t) == d * TicksPerDay + t

\* The rows the hand-sized datasets are made of.
RowPool ==
  { Row(At(0, 0), "East", "New York", "Furniture", "Chairs", "Desk Chair", 2, 1, 1),
    Row(At(1, 0), "East", NaN, "Technology", "Phones", "Smart Phone", 0, 1, -1),
    Row(At(1, 1), "West", "Texas", "Furniture", NaN, "Desk Chair", 1, 2, 0),
    Row(At(0, 1), "West", "Texas", NaN, "Phones", NaN, 3, 1, 1),
    Row(At(1, 0), NaN, "New York", "Technology", "Chairs", "Bookcase", 1, 1, -1) }

SmallSheets == UNION { [1..n -> RowPool] : n \in 1..MaxRows }

\* A catalogue: NumProducts products sold once each on the same day.
CatalogRow(i, a, b) ==
  Row(At(0, 0), IF i % 2 = 1 THEN "East" ELSE "West", "Texas", "Furniture",
      "Chairs", ProductNames[i], (a * i + b) % SalesMod, 1 + (i % 2),
      (((a + b) * i) % 3) - 1)

CatalogSheets ==
  { [i \in 1..NumProducts |-> CatalogRow(i, a, b)] :
      a \in {1, SalesMod - 1}, b \in 0..1 }

Sheets == SmallSheets \cup CatalogSheets

\* the columns that hold text; only they have missing cells in the model
TextColumns == {"Region", "State", "Category", "SubCategory", "ProductName"}
isna(col, v) == col \in TextColumns /\ v = NaN

\* df[col].dropna().unique()
Unique(df, col) == { v \in { df[i][col] : i \in DOMAIN df } : ~isna(col, v) }

\* sorted(values) for strings
RECURSIVE sorted(_)
sorted(S) ==
  IF S = {} THEN << >>
  ELSE LET m == CHOOSE x \in S : \A y \in S : LexRank(x) <= LexRank(y)
       IN  <<m>> \o sorted(S \ {m})

Range(seq) == { seq[i] : i \in DOMAIN seq }

\* Options without the dropna(): a missing cell becomes a choice
OptionsWithMissing(df, col) ==
  <<All>> \o sorted(Unique(df, col)) \o
  (IF \E i \in DOMAIN df : isna(col, df[i][col]) THEN <<NaN>> ELSE << >>)

\* ["All"] + sorted(df[col].dropna().unique())
Options(df, col) == <<All>> \o sorted(Unique(df, col))

RECURSIVE Reversed(_)
Reversed(q) == IF q = << >> THEN << >> ELSE Reversed(Tail(q)) \o << Head(q) >>

\* Mask with the matching rows newest first
MaskNewestFirst(df, col, value) ==
  Reversed(SelectSeq(df, LAMBDA r : ~isna(col, r[col]) /\ r[col] = value))

\* df[df[col] == value]; a missing cell equals nothing
Mask(df, col, value) ==
  SelectSeq(df, LAMBDA r : ~isna(col, r[col]) /\ r[col] = value)

\* df if selected == "All" else df[df[col] == selected]
Narrow(df, col, selected) == IF selected = All THEN df ELSE Mask(df, col, selected)

\* df[col].min() and .max(); of a column with no cells they are NaT, which no
\* run reaches as long as the sheet has rows
NaT == 0 - TicksPerDay
ColMin(df, col) ==
  IF df = << >> THEN NaT
  ELSE CHOOSE x \in { df[i][col] : i \in DOMAIN df } :
         \A i \in DOMAIN df : x <= df[i][col]
ColMax(df, col) ==
  IF df = << >> THEN NaT
  ELSE CHOOSE x \in { df[i][col] : i \in DOMAIN df } :
         \A i \in DOMAIN df : x >= df[i][col]

\* date_input turns the Timestamp it is given into a datetime.date
as_date(ts) == ts \div TicksPerDay
\* pd.to_datetime(date): midnight of that day
to_datetime(d) == d * TicksPerDay

\* df[col].sum()
RECURSIVE Sum(_, _)
Sum(df, col) == IF df = << >> THEN 0 ELSE Head(df)[col] + Sum(Tail(df), col)

\* df[col].mean() of a frame with rows
Mean(df, col) == Frac(Sum(df, col), Len(df))

\* ascending order of group keys: Timestamps by value, strings as sorted()
KeyRank(col, k) == IF col = "OrderDate" THEN k ELSE LexRank(k)

RECURSIVE SortedKeys(_, _)
SortedKeys(col, S) ==
  IF S = {} THEN << >>
  ELSE LET m == CHOOSE x \in S : \A y \in S : KeyRank(col, x) <= KeyRank(col, y)
       IN  <<m>> \o SortedKeys(col, S \ {m})

\* df.groupby(col)[numeric columns].sum().reset_index(): one row per key that
\* is not missing, keys ascending
GroupBySum(df, col) ==
  LET keys == SortedKeys(col, Unique(df, col))
  IN  [i \in DOMAIN keys |->
         LET g == Mask(df, col, keys[i])
         IN  [key |-> keys[i], Sales |-> Sum(g, "Sales"),
              Quantity |-> Sum(g, "Quantity"), Profit |-> Sum(g, "Profit")]]

\* df.groupby(col)["Sales"].sum().reset_index()
GroupBySales(df, col) ==
  LET g == GroupBySum(df, col)
  IN  [i \in DOMAIN g |-> [key |-> g[i].key, Sales |-> g[i].Sales]]

\* df.sort_values(by=col, ascending=False): the sort is not stable, so rows
\* with equal values may come out in any order
RECURSIVE DescendingOrders(_, _)
DescendingOrders(S, col) ==
  IF S = {} THEN { << >> }
  ELSE UNION { { <<x>> \o t : t \in DescendingOrders(S \ {x}, col) } :
               x \in { y \in S : \A z \in S : y[col] >= z[col] } }

RECURSIVE AscendingOrders(_, _)
AscendingOrders(S, col) ==
  IF S = {} THEN { << >> }
  ELSE UNION { { <<x>> \o t : t \in AscendingOrders(S \ {x}, col) } :
               x \in { y \in S : \A z \in S : y[col] <= z[col] } }

sort_values_ascending(df, col) == AscendingOrders(Range(df), col)
sort_values(df, col) == DescendingOrders(Range(df), col)

\* df.head(n)
head(df, n) == SubSeq(df, 1, IF Len(df) < n THEN Len(df) ELSE n)

\* df.to_csv(index=False): a header line, then the cells of each row
CsvHeader ==
  << "Order Date", "Region", "State", "Category", "Sub-Category",
     "Product Name", "Sales", "Quantity", "Profit" >>
to_csv(df) ==
  << CsvHeader >> \o
  [i \in DOMAIN df |->
     << df[i].OrderDate, df[i].Region, df[i].State, df[i].Category,
        df[i].SubCategory, df[i].ProductName, df[i].Sales, df[i].Quantity,
        df[i].Profit >>]

\* ------------------------------------------------------------ the state
VARIABLES
  xlsx,               \* the rows of "Sample - Superstore.xlsx"
  cache,              \* st.cache_data's store for load_data: << >> or <<frame>>
  df_original,
  page,
  region_options, selected_region,
  state_options, selected_state,
  category_options, selected_category,
  subcat_options, selected_subcat,
  min_date, max_date, from_date, to_date,
  sidebar_error,      \* "From Date must be earlier than To Date." is shown
  filtered_df,
  total_sales, total_quantity, total_profit, margin_rate,
  selected_kpi,
  sales_trend, daily_data, top_10, category_sales, csv,
  avg_sales,
  alert               \* the low-sales st.error is shown

vars ==
  << xlsx, cache, df_original, page, region_options, selected_region,
     state_options, selected_state, category_options, selected_category,
     subcat_options, selected_subcat, min_date, max_date, from_date, to_date,
     sidebar_error, filtered_df, total_sales, total_quantity, total_profit,
     margin_rate, selected_kpi, sales_trend, daily_data, top_10,
     category_sales, csv, avg_sales, alert >>

\* ------------------------------------------------------------ the script
Pages ==
  << "Overview", "Detailed Analysis", "Product Insights",
     "Custom Visualizations", "Download Report" >>
KpiOptions == << "Sales", "Profit", "Quantity" >>
Unbound == "unbound"   \* a name the run did not bind
NoFrame == << >>       \* a frame the run did not build

\* DateFilter with the lower bound taken, exclusively, from the frame itself
DateFilterAfterEarliest(df, from, to) ==
  SelectSeq(df, LAMBDA r : r.OrderDate > ColMin(df, "OrderDate")
                           /\ r.OrderDate <= to_datetime(to))

\* DateFilter with | in place of &
DateFilterEither(df, from, to) ==
  SelectSeq(df, LAMBDA r : r.OrderDate >= to_datetime(from)
                           \/ r.OrderDate <= to_datetime(to))

\* filtered_df[(Order Date >= to_datetime(from)) & (Order Date <= to_datetime(to))]
DateFilter(df, from, to) ==
  SelectSeq(df, LAMBDA r : r.OrderDate >= to_datetime(from)
                           /\ r.OrderDate <= to_datetime(to))

\* the four categorical steps of the cascade
Categorical(df, r, s, c, sc) ==
  Narrow(Narrow(Narrow(Narrow(df, "Region", r), "State", s), "Category", c),
         "SubCategory", sc)

\* the whole cascade
apply_filters(df, r, s, c, sc, from, to) ==
  DateFilter(Categorical(df, r, s, c, sc), from, to)

\* MarginOf without the guard
MarginUnguarded(profit, sales) == Frac(profit, sales)

\* (total_profit / total_sales) if total_sales != 0 else 0
MarginOf(profit, sales) == IF sales # 0 THEN Frac(profit, sales) ELSE Zero

\* the KPI block
compute_kpis(df) ==
  IF df = << >>
  THEN [total_sales |-> 0, total_quantity |-> 0, total_profit |-> 0,
        margin_rate |-> Zero]
  ELSE [total_sales |-> Sum(df, "Sales"), total_quantity |-> Sum(df, "Quantity"),
        total_profit |-> Sum(df, "Profit"),
        margin_rate |-> MarginOf(Sum(df, "Profit"), Sum(df, "Sales"))]

\* LowSales with <= in place of <
LowSalesOrEqual(total, avg) ==
  ~FracLess(FracTimes(avg, Frac(1, 2)), Frac(total, 1))

\* total_sales < avg_sales * 0.5
LowSales(total, avg) == FracLess(Frac(total, 1), FracTimes(avg, Frac(1, 2)))

\* load_data handing out, on a hit, the frame the last run narrowed
load_data_aliased(c, sheet) == IF c = << >> THEN read_excel(sheet) ELSE filtered_df

\* the cached loader: the sheet is read on a miss, the stored frame returned on
\* a hit.  The sheet's Order Date cells are datetimes already, which
\* pd.to_datetime leaves as they are.
load_data(c, sheet) == IF c = << >> THEN read_excel(sheet) ELSE c[1]

\* The KPI snapshot a run leaves: the four names the KPI block binds.
KpiSnapshot ==
  [ total_sales |-> total_sales, total_quantity |-> total_quantity,
    total_profit |-> total_profit, margin_rate |-> margin_rate ]

\* The values one run of the script binds, given the loaded frame and the
\* widget values p, r, s, c, sc, from, to, k and the order `sorted10` the
\* product sort came out in.
Script(df, p, r, s, c, sc, from, to, k, sorted10) ==
  LET by_region == Narrow(df, "Region", r)
      by_state == Narrow(by_region, "State", s)
      by_category == Narrow(by_state, "Category", c)
      by_subcat == Narrow(by_category, "SubCategory", sc)
      result == apply_filters(df, r, s, c, sc, from, to)
      kpis == compute_kpis(result)
      avg == Mean(df, "Sales")
  IN  [ page |-> p,
        region_options |-> Options(df, "Region"), selected_region |-> r,
        state_options |-> Options(by_region, "State"), selected_state |-> s,
        category_options |-> Options(by_state, "Category"),
        selected_category |-> c,
        subcat_options |-> Options(by_category, "SubCategory"),
        selected_subcat |-> sc,
        min_date |-> ColMin(by_subcat, "OrderDate"),
        max_date |-> ColMax(by_subcat, "OrderDate"),
        from_date |-> from, to_date |-> to,
        sidebar_error |-> (from > to),
        filtered_df |-> result,
        total_sales |-> kpis.total_sales,
        total_quantity |-> kpis.total_quantity,
        total_profit |-> kpis.total_profit,
        margin_rate |-> kpis.margin_rate,
        selected_kpi |-> IF p = "Detailed Analysis" THEN k ELSE Unbound,
        sales_trend |-> IF p = "Overview"
                        THEN GroupBySales(result, "OrderDate") ELSE NoFrame,
        daily_data |-> IF p = "Detailed Analysis"
                       THEN GroupBySum(result, "OrderDate") ELSE NoFrame,
        top_10 |-> IF p = "Product Insights" THEN head(sorted10, TopN)
                   ELSE NoFrame,
        category_sales |-> IF p = "Custom Visualizations" /\ result # << >>
                           THEN GroupBySales(result, "Category") ELSE NoFrame,
        csv |-> IF p = "Download Report" THEN to_csv(result) ELSE NoFrame,
        avg_sales |-> avg,
        alert |-> LowSales(kpis.total_sales, avg) ]

\* top_products: the filtered rows grouped by product
top_products(df) == GroupBySum(df, "ProductName")

\* the orders top_products.sort_values(by="Sales", ascending=False) can have
ProductOrders(df, p, r, s, c, sc, from, to) ==
  IF p = "Product Insights"
  THEN sort_values(top_products(apply_filters(df, r, s, c, sc, from, to)),
                   "Sales")
  ELSE { NoFrame }

Bind(b) ==
  /\ page = b.page
  /\ region_options = b.region_options /\ selected_region = b.selected_region
  /\ state_options = b.state_options /\ selected_state = b.selected_state
  /\ category_options = b.category_options
  /\ selected_category = b.selected_category
  /\ subcat_options = b.subcat_options /\ selected_subcat = b.selected_subcat
  /\ min_date = b.min_date /\ max_date = b.max_date
  /\ from_date = b.from_date /\ to_date = b.to_date
  /\ sidebar_error = b.sidebar_error
  /\ filtered_df = b.filtered_df
  /\ total_sales = b.total_sales /\ total_quantity = b.total_quantity
  /\ total_profit = b.total_profit /\ margin_rate = b.margin_rate
  /\ selected_kpi = b.selected_kpi
  /\ sales_trend = b.sales_trend /\ daily_data = b.daily_data
  /\ top_10 = b.top_10 /\ category_sales = b.category_sales /\ csv = b.csv
  /\ avg_sales = b.avg_sales /\ alert = b.alert

BindNext(b) ==
  /\ page' = b.page
  /\ region_options' = b.region_options /\ selected_region' = b.selected_region
  /\ state_options' = b.state_options /\ selected_state' = b.selected_state
  /\ category_options' = b.category_options
  /\ selected_category' = b.selected_category
  /\ subcat_options' = b.subcat_options /\ selected_subcat' = b.selected_subcat
  /\ min_date' = b.min_date /\ max_date' = b.max_date
  /\ from_date' = b.from_date /\ to_date' = b.to_date
  /\ sidebar_error' = b.sidebar_error
  /\ filtered_df' = b.filtered_df
  /\ total_sales' = b.total_sales /\ total_quantity' = b.total_quantity
  /\ total_profit' = b.total_profit /\ margin_rate' = b.margin_rate
  /\ selected_kpi' = b.selected_kpi
  /\ sales_trend' = b.sales_trend /\ daily_data' = b.daily_data
  /\ top_10' = b.top_10 /\ category_sales' = b.category_sales /\ csv' = b.csv
  /\ avg_sales' = b.avg_sales /\ alert' = b.alert

\* The first run: the cache is empty, the sheet is read, and every widget has
\* its default value (the first page, "All", the whole date range).
Init ==
  \E sheet \in Sheets :
    LET df == load_data(<< >>, sheet)
    IN  /\ xlsx = sheet
        /\ cache = << df >>
        /\ df_original = df
        /\ Bind(Script(df, Pages[1], All, All, All, All,
                       as_date(ColMin(df, "OrderDate")),
                       as_date(ColMax(df, "OrderDate")), Unbound, NoFrame))

\* Rerun narrowing the rows the last run kept instead of the loaded frame
RerunIncremental(p, r, s, c, sc, from, to, k) ==
  LET df == load_data(cache, xlsx)
  IN  /\ xlsx' = xlsx
      /\ cache' = cache
      /\ df_original' = df
      /\ \E sorted10 \in ProductOrders(filtered_df, p, r, s, c, sc, from, to) :
           BindNext(Script(filtered_df, p, r, s, c, sc, from, to, k, sorted10))

\* One re-run of the script with the widget values given.
Rerun(p, r, s, c, sc, from, to, k) ==
  LET df == load_data(cache, xlsx)
  IN  /\ xlsx' = xlsx
      /\ cache' = cache
      /\ df_original' = df
      /\ \E sorted10 \in ProductOrders(df, p, r, s, c, sc, from, to) :
           BindNext(Script(df, p, r, s, c, sc, from, to, k, sorted10))

\* A widget without a key keeps the value the user gave it for as long as the
\* arguments of its call stay the same; when they change (other options, other
\* date limits) it is a new widget and shows its default again.
Kept(value, old_args, new_args, default) ==
  IF new_args = old_args THEN value ELSE default

\* A widget event: the script runs again with the values p, r, s, c, sc, from,
\* to, k the widgets hold, each widget below a changed one keeping its value
\* only if its own call is unchanged.
Interact(p, r, s, c, sc, from, to, k) ==
  LET df == load_data(cache, xlsx)
      by_region == Narrow(df, "Region", r)
      s1 == Kept(s, state_options, Options(by_region, "State"), All)
      by_state == Narrow(by_region, "State", s1)
      c1 == Kept(c, category_options, Options(by_state, "Category"), All)
      by_category == Narrow(by_state, "Category", c1)
      sc1 == Kept(sc, subcat_options, Options(by_category, "SubCategory"), All)
      by_subcat == Narrow(by_category, "SubCategory", sc1)
      lo == as_date(ColMin(by_subcat, "OrderDate"))
      hi == as_date(ColMax(by_subcat, "OrderDate"))
      limits == << as_date(min_date), as_date(max_date) >>
      from1 == Kept(from, limits, << lo, hi >>, lo)
      to1 == Kept(to, limits, << lo, hi >>, hi)
  IN  Rerun(p, r, s1, c1, sc1, from1, to1, k)

\* st.sidebar.radio("Select View:"): the KPI radio of "Detailed Analysis" is
\* drawn anew and starts at its first option.
SelectView(p) ==
  /\ p # page
  /\ Interact(p, selected_region, selected_state, selected_category,
              selected_subcat, from_date, to_date, KpiOptions[1])

\* st.sidebar.selectbox("Select Region")
SelectRegion(r) ==
  /\ r \in Range(region_options) /\ r # selected_region
  /\ Interact(page, r, selected_state, selected_category, selected_subcat,
              from_date, to_date, selected_kpi)

\* st.sidebar.selectbox("Select State")
SelectState(s) ==
  /\ s \in Range(state_options) /\ s # selected_state
  /\ Interact(page, selected_region, s, selected_category, selected_subcat,
              from_date, to_date, selected_kpi)

\* st.sidebar.selectbox("Select Category")
SelectCategory(c) ==
  /\ c \in Range(category_options) /\ c # selected_category
  /\ Interact(page, selected_region, selected_state, c, selected_subcat,
              from_date, to_date, selected_kpi)

\* st.sidebar.selectbox("Select Sub-Category")
SelectSubcat(sc) ==
  /\ sc \in Range(subcat_options) /\ sc # selected_subcat
  /\ Interact(page, selected_region, selected_state, selected_category, sc,
              from_date, to_date, selected_kpi)

\* st.sidebar.date_input("From Date")
PickFromDate(d) ==
  /\ d \in as_date(min_date) .. as_date(max_date) /\ d # from_date
  /\ Interact(page, selected_region, selected_state, selected_category,
              selected_subcat, d, to_date, selected_kpi)

\* st.sidebar.date_input("To Date")
PickToDate(d) ==
  /\ d \in as_date(min_date) .. as_date(max_date) /\ d # to_date
  /\ Interact(page, selected_region, selected_state, selected_category,
              selected_subcat, from_date, d, selected_kpi)

\* st.radio("Select KPI to Analyze:")
SelectKPI(k) ==
  /\ page = "Detailed Analysis"
  /\ k # selected_kpi
  /\ Interact(page, selected_region, selected_state, selected_category,
              selected_subcat, from_date, to_date, k)

Next ==
  \/ \E p \in Range(Pages) : SelectView(p)
  \/ \E r \in Range(region_options) : SelectRegion(r)
  \/ \E s \in Range(state_options) : SelectState(s)
  \/ \E c \in Range(category_options) : SelectCategory(c)
  \/ \E sc \in Range(subcat_options) : SelectSubcat(sc)
  \/ \E d \in as_date(min_date) .. as_date(max_date) : PickFromDate(d)
  \/ \E d \in as_date(min_date) .. as_date(max_date) : PickToDate(d)
  \/ \E k \in Range(KpiOptions) : SelectKPI(k)

Spec == Init /\ [][Next]_vars

\* ------------------------------------------------------------ properties
\* The selection read off the state, stated row by row.
Passes(selected, cell) == selected = All \/ cell = selected
Satisfies(row) ==
  /\ Passes(selected_region, row.Region)
  /\ Passes(selected_state, row.State)
  /\ Passes(selected_category, row.Category)
  /\ Passes(selected_subcat, row.SubCategory)
  /\ row.OrderDate >= from_date * TicksPerDay
  /\ row.OrderDate <= to_date * TicksPerDay
Expected == SelectSeq(df_original, Satisfies)
Narrowed == Len(filtered_df) < Len(df_original)

\* C1: the filtered result is a subsequence of the dataset: every row of it
\* is the dataset's row of the same index label, and the labels strictly
\* increase, so no row is made up, repeated or moved.
C1_Subsequence ==
  /\ \A i \in DOMAIN filtered_df :
       /\ filtered_df[i].index + 1 \in DOMAIN df_original
       /\ filtered_df[i] = df_original[filtered_df[i].index + 1]
  /\ \A i, j \in DOMAIN filtered_df :
       i < j => filtered_df[i].index < filtered_df[j].index
\* a text filter kept the first and the third row and dropped the second
C1_Witness ==
  /\ selected_region # All
  /\ Len(filtered_df) >= 2
  /\ filtered_df[1].index = 0 /\ filtered_df[2].index = 2

\* C2: filtering the filtered result again with the same selection returns
\* the same rows.
C2_Idempotent ==
  apply_filters(filtered_df, selected_region, selected_state,
                selected_category, selected_subcat, from_date, to_date)
    = filtered_df
\* a text filter and a moved start date both dropped rows, and rows remain
C2_Witness ==
  /\ selected_state # All
  /\ from_date > as_date(min_date)
  /\ filtered_df # << >>
  /\ Narrowed

\* C3: the totals are the sums over the filtered rows (0 for no rows); the
\* margin rate is total_profit / total_sales when there are rows and
\* total_sales is not 0, and 0 otherwise; it is never a quotient by 0.
C3_Kpis ==
  /\ total_sales = Sum(filtered_df, "Sales")
  /\ total_quantity = Sum(filtered_df, "Quantity")
  /\ total_profit = Sum(filtered_df, "Profit")
  /\ margin_rate.den # 0
  /\ IF filtered_df # << >> /\ total_sales # 0
     THEN margin_rate.num * total_sales = total_profit * margin_rate.den
     ELSE margin_rate.num = 0
\* rows whose sales add up to 0 while their profit does not
C3_Witness ==
  /\ filtered_df # << >>
  /\ total_sales = 0
  /\ total_profit # 0

\* C4: every value other than "All" that a level offers occurs, in that
\* level's column, in a row that passed the levels above it; and the rows
\* that pass all four levels are never none.
C4_ConsistentChoices ==
  LET by_region == Narrow(df_original, "Region", selected_region)
      by_state == Narrow(by_region, "State", selected_state)
      by_category == Narrow(by_state, "Category", selected_category)
      by_subcat == Narrow(by_category, "SubCategory", selected_subcat)
      Occurs(offer, df, col) ==
        \A v \in Range(offer) \ {All} :
          \E i \in DOMAIN df : ~isna(col, df[i][col]) /\ df[i][col] = v
  IN  /\ Occurs(region_options, df_original, "Region")
      /\ Occurs(state_options, by_region, "State")
      /\ Occurs(category_options, by_state, "Category")
      /\ Occurs(subcat_options, by_category, "SubCategory")
      /\ by_subcat # << >>
\* a region is chosen, it hides a state the whole dataset has, and a state of
\* the region is chosen
C4_Witness ==
  /\ selected_region # All
  /\ selected_state # All
  /\ Len(state_options) < Len(Options(df_original, "State"))

\* C5: with date_from later than date_to the advisory is shown, the filtered
\* result is empty, the KPIs are those of no rows and the run reaches its
\* last statement, the low-sales test.
C5_InvertedRange ==
  from_date > to_date =>
    /\ sidebar_error
    /\ filtered_df = << >>
    /\ total_sales = 0 /\ total_quantity = 0 /\ total_profit = 0
    /\ margin_rate = Zero
    /\ alert = (Sum(df_original, "Sales") > 0)
C5_Witness == from_date > to_date /\ selected_category # All

DescendingBy(frame, col) ==
  \A i \in 1..(Len(frame) - 1) : frame[i][col] >= frame[i + 1][col]
LeftOut == Range(top_products(filtered_df)) \ Range(top_10)
TopBy(col) ==
  /\ Len(top_10) <= TopN
  /\ Range(top_10) \subseteq Range(top_products(filtered_df))
  /\ Len(top_10) = Cardinality(Range(top_10))
  /\ DescendingBy(top_10, col)
  /\ \A g \in Range(top_10) : \A o \in LeftOut : g[col] >= o[col]

PrevSales ==
  Sum(SelectSeq(df_original, LAMBDA r : r.OrderDate < from_date * TicksPerDay),
      "Sales")
\* C7: the KPI snapshot has sales_change_pct, which is
\* (total_sales - prev_sales) / prev_sales * 100 when prev_sales, the Sales of
\* every dataset row ordered strictly before date_from, is not 0, and 0 when
\* it is.
C7_PeriodDelta ==
  /\ "sales_change_pct" \in DOMAIN KpiSnapshot
  /\ KpiSnapshot["sales_change_pct"] =
       IF PrevSales # 0
       THEN Frac((total_sales - PrevSales) * 100, PrevSales) ELSE Zero

\* C8: on every page the low-sales alert is shown exactly when total_sales is
\* less than half the mean of Sales over the whole dataset; with no filtered
\* rows, exactly when that mean is above 0.
C8_LowSalesAlert ==
  /\ alert = (2 * total_sales * Len(df_original) < Sum(df_original, "Sales"))
  /\ filtered_df = << >> => alert = (Sum(df_original, "Sales") > 0)
C8_Witness ==
  /\ page = "Custom Visualizations"
  /\ filtered_df = << >>
  /\ alert

\* C9: no interaction changes the loaded dataset.
C9_ReadOnly == [][df_original' = df_original /\ cache' = cache]_vars
\* the export page, reached with rows filtered away
C9_Witness ==
  /\ page = "Download Report"
  /\ Len(csv) = Len(filtered_df) + 1
  /\ filtered_df # << >>
  /\ Narrowed

\* C10: whatever happened before, the filtered rows and the KPI snapshot are
\* those of the dataset as loaded under the selection the widgets now hold.
C10_FromScratch ==
  /\ df_original = read_excel(xlsx)
  /\ filtered_df = Expected
  /\ KpiSnapshot =
       [ total_sales |-> Sum(Expected, "Sales"),
         total_quantity |-> Sum(Expected, "Quantity"),
         total_profit |-> Sum(Expected, "Profit"),
         margin_rate |-> IF Expected = << >> \/ Sum(Expected, "Sales") = 0
                         THEN Zero
                         ELSE Frac(Sum(Expected, "Profit"),
                                   Sum(Expected, "Sales")) ]
\* a selection that was narrowed and then widened again in part
C10_Witness ==
  /\ page = "Detailed Analysis"
  /\ selected_kpi = "Profit"
  /\ selected_region = All
  /\ selected_subcat # All
  /\ Narrowed

====
